---- MODULE Spec2Model ----
(***************************************************************************)
(* Model of the ebook PDF endpoint (src/main.py): request validation,      *)
(* bearer authentication, element-stream construction, the single-pass     *)
(* layout driven by doc.build with the afterFlowable hook, and the pure    *)
(* helpers get_page_size, safe_text_to_paragraph_html,                     *)
(* strip_capitulo_prefix and add_header_footer.                            *)
(*                                                                         *)
(* A Python str is a sequence of one-character atoms.  Characters outside  *)
(* ASCII are written as named atoms: "i_acute", "a_acute", "endash",       *)
(* "emdash", "ellipsis", "LF" (newline).                                   *)
(***************************************************************************)
EXTENDS Integers, Sequences, FiniteSets, TLC

VARIABLES pc, apiKey, authorization, payload, status, pagesize, elements,
          idx, page, tocNotes, bookmarks, outline, tocRendered, placed,
          decor, response, hanging, fnIn, fnOut

vars == <<pc, apiKey, authorization, payload, status, pagesize, elements,
          idx, page, tocNotes, bookmarks, outline, tocRendered, placed,
          decor, response, hanging, fnIn, fnOut>>

(***************************************************************************)
(* Bounds of the model.                                                    *)
(***************************************************************************)
MaxChapters == 2
MaxBodyPages == 2
MaxTitleLen == 72
MaxTextLen == 4
MaxPieces == 4
MaxHeaderPages == 2

(***************************************************************************)
(* Python values and str methods.                                          *)
(***************************************************************************)
None == <<"<None>">>

Falsy(v) == v = None \/ v = <<>>

Whitespace == {" ", "LF", "TAB"}

UpperOf ==
  [c \in {"a", "b", "c", "e", "i", "l", "o", "p", "r", "t", "u", "x", "y", "i_acute"} |->
     CASE c = "a" -> "A" [] c = "b" -> "B" [] c = "c" -> "C" [] c = "e" -> "E"
       [] c = "i" -> "I" [] c = "l" -> "L" [] c = "o" -> "O" [] c = "p" -> "P"
       [] c = "r" -> "R" [] c = "t" -> "T" [] c = "u" -> "U" [] c = "x" -> "X"
       [] c = "y" -> "Y" [] c = "i_acute" -> "I_ACUTE"]

UpperChar(c) == IF c \in DOMAIN UpperOf THEN UpperOf[c] ELSE c

LowerChar(c) ==
  IF \E l \in DOMAIN UpperOf : UpperOf[l] = c
  THEN CHOOSE l \in DOMAIN UpperOf : UpperOf[l] = c
  ELSE c

upper(s) == [k \in 1..Len(s) |-> UpperChar(s[k])]

lower(s) == [k \in 1..Len(s) |-> LowerChar(s[k])]

startswith(s, p) == Len(s) >= Len(p) /\ SubSeq(s, 1, Len(p)) = p

RECURSIVE lstrip(_)
lstrip(s) == IF s # <<>> /\ s[1] \in Whitespace THEN lstrip(Tail(s)) ELSE s

RECURSIVE rstrip(_)
rstrip(s) ==
  IF s # <<>> /\ s[Len(s)] \in Whitespace THEN rstrip(SubSeq(s, 1, Len(s) - 1)) ELSE s

strip(s) == rstrip(lstrip(s))

\* str.replace(old, new): every non-overlapping occurrence, left to right.
RECURSIVE replace(_, _, _)
replace(s, old, new) ==
  IF s = <<>> THEN <<>>
  ELSE IF startswith(s, old) THEN new \o replace(SubSeq(s, Len(old) + 1, Len(s)), old, new)
  ELSE <<s[1]>> \o replace(Tail(s), old, new)

contains(s, c) == \E k \in 1..Len(s) : s[k] = c

\* index of the first occurrence of the character c in s (c occurs in s)
find(s, c) == CHOOSE k \in 1..Len(s) : s[k] = c /\ \A j \in 1..(k - 1) : s[j] # c

\* s.split(c, 1) when c occurs in s: <<left, right>>
split1(s, c) == <<SubSeq(s, 1, find(s, c) - 1), SubSeq(s, find(s, c) + 1, Len(s))>>

Digit(d) ==
  CASE d = 0 -> "0" [] d = 1 -> "1" [] d = 2 -> "2" [] d = 3 -> "3" [] d = 4 -> "4"
    [] d = 5 -> "5" [] d = 6 -> "6" [] d = 7 -> "7" [] d = 8 -> "8" [] d = 9 -> "9"

\* str(n) / f"{n}" for a natural number n
RECURSIVE ToStr(_)
ToStr(n) == IF n < 10 THEN <<Digit(n)>> ELSE ToStr(n \div 10) \o <<Digit(n % 10)>>

(***************************************************************************)
(* get_page_size                                                           *)
(***************************************************************************)
A4 == <<595, 842>>

letter == <<612, 792>>

get_page_size(size) ==
  IF upper(IF Falsy(size) THEN <<"A", "4">> ELSE size) = <<"A", "4">> THEN A4 ELSE letter

(***************************************************************************)
(* safe_text_to_paragraph_html                                             *)
(***************************************************************************)
Amp == <<"&", "a", "m", "p", ";">>

Lt == <<"&", "l", "t", ";">>

Gt == <<"&", "g", "t", ";">>

Br == <<"<", "b", "r", "/", ">">>

\* variant: the ampersand is escaped after the angle brackets
safe_text_AmpLast(text) ==
  IF text = None THEN <<>>
  ELSE replace(replace(replace(replace(text, <<"<">>, Lt), <<">">>, Gt), <<"&">>, Amp),
               <<"LF">>, Br)

safe_text_to_paragraph_html(text) ==
  IF text = None THEN <<>>
  ELSE replace(replace(replace(replace(text, <<"&">>, Amp), <<"<">>, Lt), <<">">>, Gt),
               <<"LF">>, Br)

(***************************************************************************)
(* strip_capitulo_prefix                                                   *)
(***************************************************************************)
CapituloAcc == <<"c", "a", "p", "i_acute", "t", "u", "l", "o">>

CapituloPlain == <<"c", "a", "p", "i", "t", "u", "l", "o">>

Separators == <<":", "-", "endash", "emdash">>

\* the for-loop over the separators, from the k-th one on; <<FALSE, _>> when
\* the loop ends without returning
RECURSIVE SepLoop(_, _)
SepLoop(t, k) ==
  IF k > Len(Separators) THEN <<FALSE, <<>>>>
  ELSE IF contains(t, Separators[k])
          /\ (startswith(lower(split1(t, Separators[k])[1]), CapituloAcc)
              \/ startswith(lower(split1(t, Separators[k])[1]), CapituloPlain))
       THEN <<TRUE, strip(split1(t, Separators[k])[2])>>
       ELSE SepLoop(t, k + 1)

strip_capitulo_prefix(title) ==
  IF Falsy(title) THEN <<>>
  ELSE LET t == strip(title)
           low == lower(t)
       IN IF startswith(low, CapituloAcc \o <<" ">>) \/ startswith(low, CapituloPlain \o <<" ">>)
          THEN IF SepLoop(t, 1)[1] THEN SepLoop(t, 1)[2]
               ELSE IF contains(t, " ") THEN strip(split1(t, " ")[2]) ELSE t
          ELSE t

(***************************************************************************)
(* add_header_footer                                                       *)
(***************************************************************************)
HeaderCap == 70

\* variant: the cut is taken one character early
HeaderTitle_OffByOne(title) ==
  LET t == strip(IF Falsy(title) THEN <<>> ELSE title)
  IN IF Len(t) >= HeaderCap THEN SubSeq(t, 1, HeaderCap - 1) \o <<"ellipsis">> ELSE t

HeaderTitle(title) ==
  LET t == strip(IF Falsy(title) THEN <<>> ELSE title)
  IN IF Len(t) > HeaderCap THEN SubSeq(t, 1, HeaderCap) \o <<"ellipsis">> ELSE t

FooterCaption(n) == <<"P", "a_acute", "g", "i", "n", "a", " ">> \o ToStr(n)

\* what one call of add_header_footer draws on the page the canvas is on
add_header_footer(title, pageNumber) ==
  [page |-> pageNumber, header |-> HeaderTitle(title), footer |-> FooterCaption(pageNumber)]

(***************************************************************************)
(* Requests: EbookRequest / Chapter and the Authorization header.          *)
(***************************************************************************)
Bearer == <<"B", "e", "a", "r", "e", "r", " ">>

ApiKeys == {<<>>, <<"X">>, Bearer \o <<"X">>}

Headers ==
  {<<>>, <<"X">>, Bearer \o <<"X">>, Bearer \o <<"Y">>, Bearer \o Bearer \o <<"X">>,
   <<"b", "e", "a", "r", "e", "r", " ", "X">>}

Capitulo3 == <<"C", "a", "p", "i_acute", "t", "u", "l", "o", " ", "3">>

ChapterSet ==
  {[title |-> Capitulo3 \o <<":", " ", "S">>, content |-> <<"a", "<", "b">>],
   [title |-> <<"I">>, content |-> <<"x", "LF", "&">>]}

ChapterLists == UNION {[1..n -> ChapterSet] : n \in 0..MaxChapters}

PageSizes == {None, <<>>, <<"A", "4">>, <<"a", "4">>, <<"L", "E", "T", "T", "E", "R">>, <<"A", "5">>}

\* has_title / has_chapters: whether the body carries the required field
Payloads ==
  {p \in [has_title : BOOLEAN, title : {<<>>, <<" ", "T">>},
          subtitle : {None},
          author : {None, <<"A">>},
          page_size : PageSizes,
          has_chapters : BOOLEAN, chapters : ChapterLists] :
     /\ (~p.has_title => p.title = <<>>)
     /\ (~p.has_chapters => p.chapters = <<>>)}

\* pydantic accepts the body iff the required fields title and chapters are there
ValidRequest(p) == p.has_title /\ p.has_chapters

(***************************************************************************)
(* Flowables of the element stream.                                        *)
(***************************************************************************)
Flowable(kind, style, text) ==
  [kind |-> kind, style |-> style, text |-> text, is_toc_heading |-> FALSE,
   toc_text |-> None, toc_level |-> 0, bookmark_name |-> None]

Spacer(mm) == Flowable("Spacer", "", ToStr(mm))

PageBreak == Flowable("PageBreak", "", <<>>)

Sumario == <<"S", "u", "m", "a_acute", "r", "i", "o">>

CoverBlock(p) ==
  <<Spacer(40),
    Flowable("Paragraph", "CoverBand",
             strip(IF Falsy(p.title) THEN <<>> ELSE p.title)
               \o <<"LF">> \o (IF Falsy(p.subtitle) THEN <<>> ELSE p.subtitle)),
    Spacer(10)>>
  \o (IF Falsy(p.author) THEN <<>>
      ELSE <<Flowable("Paragraph", "Normal", <<"A", "u", "t", "o", "r", ":", " ">> \o p.author)>>)
  \o <<Spacer(6), Flowable("Paragraph", "Normal", <<"V">>), PageBreak>>

TOCBlock ==
  <<Flowable("Paragraph", "TOCHeader", Sumario), Spacer(4),
    Flowable("TableOfContents", "TOCLevel0", <<>>), PageBreak>>

\* variant: enumerate counting from 0
ChapterTitle_FromZero(i, ch) ==
  <<"C", "a", "p", "i_acute", "t", "u", "l", "o", " ">> \o ToStr(i - 1) \o <<":", " ">>
    \o strip_capitulo_prefix(ch.title)

ChapterTitle(i, ch) ==
  <<"C", "a", "p", "i_acute", "t", "u", "l", "o", " ">> \o ToStr(i) \o <<":", " ">>
    \o strip_capitulo_prefix(ch.title)

Heading(i, ch) ==
  [kind |-> "Paragraph", style |-> "ChapterTitle", text |-> ChapterTitle(i, ch),
   is_toc_heading |-> TRUE, toc_text |-> ChapterTitle(i, ch), toc_level |-> 0,
   bookmark_name |-> <<"c", "h", "_">> \o ToStr(i)]

\* variant: no page break after the chapter body
ChapterBlock_NoBreak(i, ch) ==
  <<Heading(i, ch), Spacer(3),
    Flowable("Paragraph", "BodyTextPremium", safe_text_to_paragraph_html(ch.content))>>

\* one iteration of the chapter loop: enumerate(payload.chapters, start=1)
ChapterBlock(i, ch) ==
  <<Heading(i, ch), Spacer(3),
    Flowable("Paragraph", "BodyTextPremium", safe_text_to_paragraph_html(ch.content)),
    PageBreak>>

(***************************************************************************)
(* EbookDocTemplate.afterFlowable                                          *)
(***************************************************************************)
\* variant: the TOC is notified but no bookmark is registered
afterFlowable_NoBookmark(f, pg) ==
  IF f.is_toc_heading /\ ~Falsy(f.toc_text) /\ ~Falsy(f.bookmark_name)
  THEN [notes |-> Append(tocNotes, [level |-> f.toc_level, text |-> f.toc_text, page |-> pg]),
        bookmarks |-> bookmarks,
        outline |-> outline]
  ELSE [notes |-> tocNotes, bookmarks |-> bookmarks, outline |-> outline]

\* the effects of afterFlowable(f) with the document on page pg
afterFlowable(f, pg) ==
  IF f.is_toc_heading /\ ~Falsy(f.toc_text) /\ ~Falsy(f.bookmark_name)
  THEN [notes |-> Append(tocNotes, [level |-> f.toc_level, text |-> f.toc_text, page |-> pg]),
        bookmarks |-> Append(bookmarks, [key |-> f.bookmark_name, page |-> pg]),
        outline |-> Append(outline, [text |-> f.toc_text, key |-> f.bookmark_name,
                                     level |-> f.toc_level])]
  ELSE [notes |-> tocNotes, bookmarks |-> bookmarks, outline |-> outline]

(***************************************************************************)
(* generate_ebook_pdf                                                      *)
(***************************************************************************)
Init ==
  /\ pc = "recv"
  /\ apiKey \in ApiKeys
  /\ authorization \in Headers
  /\ payload \in Payloads
  /\ status = 0
  /\ pagesize = <<0, 0>>
  /\ elements = <<>>
  /\ idx = 1
  /\ page = 1
  /\ tocNotes = <<>>
  /\ bookmarks = <<>>
  /\ outline = <<>>
  /\ tocRendered = <<>>
  /\ placed = <<>>
  /\ decor = <<>>
  /\ response = <<>>
  /\ hanging = FALSE
  /\ fnIn = None
  /\ fnOut = None

\* request-body validation against EbookRequest, before the handler runs
Validate ==
  /\ pc = "recv"
  /\ IF ValidRequest(payload)
     THEN pc' = "auth" /\ status' = status
     ELSE pc' = "done" /\ status' = 422
  /\ UNCHANGED <<apiKey, authorization, payload, pagesize, elements, idx, page, tocNotes,
                 bookmarks, outline, tocRendered, placed, decor, response, hanging,
                 fnIn, fnOut>>

\* the status the auth block raises, 0 when the request goes on
AuthStatus(key, auth) ==
  IF key # <<>>
  THEN IF ~startswith(auth, Bearer) THEN 401
       ELSE IF strip(replace(auth, Bearer, <<>>)) # key THEN 403
       ELSE 0
  ELSE 0

Auth ==
  /\ pc = "auth"
  /\ IF AuthStatus(apiKey, authorization) # 0
     THEN pc' = "done" /\ status' = AuthStatus(apiKey, authorization)
     ELSE pc' = "setup" /\ status' = status
  /\ UNCHANGED <<apiKey, authorization, payload, pagesize, elements, idx, page, tocNotes,
                 bookmarks, outline, tocRendered, placed, decor, response, hanging,
                 fnIn, fnOut>>

Setup ==
  /\ pc = "setup"
  /\ pagesize' = get_page_size(payload.page_size)
  /\ pc' = "cover"
  /\ UNCHANGED <<apiKey, authorization, payload, status, elements, idx, page, tocNotes,
                 bookmarks, outline, tocRendered, placed, decor, response, hanging,
                 fnIn, fnOut>>

BuildCover ==
  /\ pc = "cover"
  /\ elements' = elements \o CoverBlock(payload)
  /\ pc' = "toc"
  /\ UNCHANGED <<apiKey, authorization, payload, status, pagesize, idx, page, tocNotes,
                 bookmarks, outline, tocRendered, placed, decor, response, hanging,
                 fnIn, fnOut>>

BuildTOC ==
  /\ pc = "toc"
  /\ elements' = elements \o TOCBlock
  /\ idx' = 1
  /\ pc' = "chapters"
  /\ UNCHANGED <<apiKey, authorization, payload, status, pagesize, page, tocNotes,
                 bookmarks, outline, tocRendered, placed, decor, response, hanging,
                 fnIn, fnOut>>

\* idx is the loop variable i while pc = "chapters"
BuildChapter ==
  /\ pc = "chapters"
  /\ idx <= Len(payload.chapters)
  /\ elements' = elements \o ChapterBlock(idx, payload.chapters[idx])
  /\ idx' = idx + 1
  /\ UNCHANGED <<pc, apiKey, authorization, payload, status, pagesize, page, tocNotes,
                 bookmarks, outline, tocRendered, placed, decor, response, hanging,
                 fnIn, fnOut>>

\* doc.build(elements, onLaterPages=add_header_footer) begins: page 1 opens
StartBuild ==
  /\ pc = "chapters"
  /\ idx > Len(payload.chapters)
  /\ idx' = 1
  /\ page' = 1
  /\ hanging' = FALSE
  /\ pc' = "build"
  /\ UNCHANGED <<apiKey, authorization, payload, status, pagesize, elements, tocNotes,
                 bookmarks, outline, tocRendered, placed, decor, response, fnIn, fnOut>>

\* header/footer draws for the later pages from..to
RECURSIVE DrawPages(_, _, _)
DrawPages(title, from, to) ==
  IF from > to THEN <<>>
  ELSE <<add_header_footer(title, from)>> \o DrawPages(title, from + 1, to)

\* the layout engine handles the next flowable of the story (single pass)
LayoutFlowable ==
  /\ pc = "build"
  /\ idx <= Len(elements)
  /\ LET f == elements[idx]
         start == IF hanging THEN page + 1 ELSE page
     IN \E extra \in 0..(IF f.style = "BodyTextPremium" THEN MaxBodyPages - 1 ELSE 0) :
          /\ page' = start + extra
          /\ decor' = decor \o DrawPages(payload.title, page + 1, start + extra)
          /\ hanging' = (f.kind = "PageBreak")
          /\ placed' = Append(placed, start)
          /\ tocRendered' = IF f.kind = "TableOfContents" THEN tocNotes ELSE tocRendered
          /\ tocNotes' = afterFlowable(f, start).notes
          /\ bookmarks' = afterFlowable(f, start).bookmarks
          /\ outline' = afterFlowable(f, start).outline
  /\ idx' = idx + 1
  /\ UNCHANGED <<pc, apiKey, authorization, payload, status, pagesize, elements, response,
                 fnIn, fnOut>>

\* the build is over; the buffer is encoded and returned
Respond ==
  /\ pc = "build"
  /\ idx > Len(elements)
  /\ response' = <<[name |-> "ebook_premium.pdf", mime_type |-> "application/pdf",
                   pages |-> page, pagesize |-> pagesize, toc |-> tocRendered]>>
  /\ status' = 200
  /\ pc' = "done"
  /\ UNCHANGED <<apiKey, authorization, payload, pagesize, elements, idx, page, tocNotes,
                 bookmarks, outline, tocRendered, placed, decor, hanging, fnIn, fnOut>>

Next ==
  \/ Validate
  \/ Auth
  \/ Setup
  \/ BuildCover
  \/ BuildTOC
  \/ BuildChapter
  \/ StartBuild
  \/ LayoutFlowable
  \/ Respond

Spec == Init /\ [][Next]_vars

(***************************************************************************)
(* The pure helpers, each applied to inputs drawn from bounded sets.       *)
(***************************************************************************)
RECURSIVE Flatten(_)
Flatten(ss) == IF ss = <<>> THEN <<>> ELSE ss[1] \o Flatten(Tail(ss))

Pieced(pieces, n) == {Flatten(ps) : ps \in UNION {[1..m -> pieces] : m \in 0..n}}

Idle ==
  /\ apiKey = <<>>
  /\ authorization = <<>>
  /\ status = 0
  /\ pagesize = <<0, 0>>
  /\ elements = <<>>
  /\ idx = 1
  /\ tocNotes = <<>>
  /\ bookmarks = <<>>
  /\ outline = <<>>
  /\ tocRendered = <<>>
  /\ placed = <<>>
  /\ response = <<>>
  /\ hanging = FALSE

EmptyPayload ==
  [has_title |-> TRUE, title |-> <<>>, subtitle |-> None, author |-> None,
   page_size |-> None, has_chapters |-> TRUE, chapters |-> <<>>]

StripPieces ==
  {<<"C", "a", "p", "i_acute", "t", "u", "l", "o">>, <<"c", "a", "p", "i", "t", "u", "l", "o">>,
   <<" ">>, <<"3">>, <<":">>, <<"-">>, <<"endash">>, <<"A">>}

InitStrip ==
  /\ Idle
  /\ pc = "strip_in"
  /\ payload = EmptyPayload
  /\ page = 1
  /\ decor = <<>>
  /\ fnIn \in Pieced(StripPieces, MaxPieces)
  /\ fnOut = <<>>

ApplyStrip ==
  /\ pc = "strip_in"
  /\ fnOut' = strip_capitulo_prefix(fnIn)
  /\ pc' = "strip_out"
  /\ UNCHANGED <<apiKey, authorization, payload, status, pagesize, elements, idx, page,
                 tocNotes, bookmarks, outline, tocRendered, placed, decor, response,
                 hanging, fnIn>>

SpecStrip == InitStrip /\ [][ApplyStrip]_vars

EscapePieces ==
  {<<"&">>, <<"<">>, <<">">>, <<"LF">>, <<"l", "t", ";">>, <<"a", "m", "p", ";">>,
   <<"b", "r", "/">>, <<"a">>}

InitEscape ==
  /\ Idle
  /\ pc = "escape_in"
  /\ payload = EmptyPayload
  /\ page = 1
  /\ decor = <<>>
  /\ fnIn \in Pieced(EscapePieces, MaxTextLen)
  /\ fnOut = <<>>

ApplyEscape ==
  /\ pc = "escape_in"
  /\ fnOut' = safe_text_to_paragraph_html(fnIn)
  /\ pc' = "escape_out"
  /\ UNCHANGED <<apiKey, authorization, payload, status, pagesize, elements, idx, page,
                 tocNotes, bookmarks, outline, tocRendered, placed, decor, response,
                 hanging, fnIn>>

SpecEscape == InitEscape /\ [][ApplyEscape]_vars

Pad(n) == [k \in 1..n |-> " "]

TitleBody(n) == [k \in 1..n |-> Digit(k % 10)]

HeaderTitles == {Pad(l) \o TitleBody(n) \o Pad(r) : l \in 0..1, r \in 0..1, n \in 0..MaxTitleLen}

InitHeader ==
  /\ Idle
  /\ pc = "header"
  /\ payload \in {[EmptyPayload EXCEPT !.title = t] : t \in HeaderTitles}
  /\ page = 1
  /\ decor = <<>>
  /\ fnIn = <<>>
  /\ fnOut = <<>>

\* the engine opens a later page and calls add_header_footer on it
DrawLaterPage ==
  /\ pc = "header"
  /\ page <= MaxHeaderPages
  /\ page' = page + 1
  /\ decor' = Append(decor, add_header_footer(payload.title, page + 1))
  /\ UNCHANGED <<pc, apiKey, authorization, payload, status, pagesize, elements, idx,
                 tocNotes, bookmarks, outline, tocRendered, placed, response, hanging,
                 fnIn, fnOut>>

SpecHeader == InitHeader /\ [][DrawLaterPage]_vars

(***************************************************************************)
(* Properties.                                                             *)
(***************************************************************************)
N == Len(payload.chapters)

\* the element stream is complete: the handler is in or past doc.build
StreamComplete == pc = "build" \/ (pc = "done" /\ status = 200)

HeadingIdx == {k \in 1..Len(elements) : elements[k].is_toc_heading}

\* index in the stream of the j-th chapter heading
NthHeading(j) ==
  CHOOSE h \in HeadingIdx : Cardinality({k \in HeadingIdx : k < h}) = j - 1

CanonicalPrefix(j) ==
  <<"C", "a", "p", "i_acute", "t", "u", "l", "o", " ">> \o ToStr(j) \o <<":", " ">>

\* C1: once doc.build has finished for a request with N >= 1 chapters, the
\* table of contents as rendered shows, for every chapter i, an entry with
\* the heading's text and the page on which that heading was placed.
C1_TocMatchesHeadings ==
  (pc = "done" /\ status = 200 /\ N >= 1) =>
     \A j \in 1..N :
        \E e \in 1..Len(tocRendered) :
           /\ tocRendered[e].text = elements[NthHeading(j)].toc_text
           /\ tocRendered[e].page = placed[NthHeading(j)]

\* C2: with a non-empty API_KEY X, "Bearer X" goes on to rendering, a header
\* starting with "Bearer " with another token gets 403, any other header gets
\* 401; with an empty API_KEY every request goes on; a rejected request
\* composes and returns nothing.
C2_AuthOutcome ==
  (pc \notin {"recv", "auth"} /\ status # 422) =>
     /\ IF apiKey = <<>> THEN status \notin {401, 403}
        ELSE IF authorization = Bearer \o apiKey THEN status \notin {401, 403}
        ELSE IF startswith(authorization, Bearer) THEN status = 403
        ELSE status = 401
     /\ (status \in {401, 403} => elements = <<>> /\ response = <<>>)

\* C3: the i-th chapter heading of the element stream, in submission order,
\* has a display title (and TOC text) beginning with "Capitulo i: ", so the
\* heading numbers are 1, 2, ..., with no gap or repeat, whatever the
\* submitted title carried.
C3_HeadingNumbering ==
  \A j \in 1..Cardinality(HeadingIdx) :
     /\ startswith(elements[NthHeading(j)].text, CanonicalPrefix(j))
     /\ startswith(elements[NthHeading(j)].toc_text, CanonicalPrefix(j))

C3_Witness ==
  /\ pc = "build"
  /\ N = 2
  /\ startswith(lower(payload.chapters[2].title), CapituloAcc)
  /\ elements[NthHeading(2)].text = CanonicalPrefix(2) \o <<"S">>

SepSet == {":", "-", "endash", "emdash"}

\* index of the first character of t that is in the set cs
FirstOf(t, cs) == CHOOSE k \in 1..Len(t) : t[k] \in cs /\ \A j \in 1..(k - 1) : t[j] \notin cs

\* C4: for a title beginning (case-insensitively) with the chapter prefix
\* word, the display title is the text after the first separator occurring in
\* the title when it has one, and the text after the first
\* whitespace-delimited token when it has none; any other title is returned
\* trimmed and otherwise unchanged.
C4_SeparatorFirst ==
  pc = "strip_out" =>
     LET t == strip(fnIn)
     IN IF startswith(lower(t), CapituloAcc \o <<" ">>)
           \/ startswith(lower(t), CapituloPlain \o <<" ">>)
        THEN IF \E k \in 1..Len(t) : t[k] \in SepSet
             THEN fnOut = strip(SubSeq(t, FirstOf(t, SepSet) + 1, Len(t)))
             ELSE fnOut = strip(SubSeq(t, FirstOf(t, Whitespace) + 1, Len(t)))
        ELSE fnOut = t

\* markup in which "&" only starts one of the three entities, "<" and ">"
\* only belong to <br/> tags, and no newline is left
RECURSIVE WellFormedMarkup(_)
WellFormedMarkup(s) ==
  IF s = <<>> THEN TRUE
  ELSE IF startswith(s, Br) THEN WellFormedMarkup(SubSeq(s, 6, Len(s)))
  ELSE IF startswith(s, Amp) THEN WellFormedMarkup(SubSeq(s, 6, Len(s)))
  ELSE IF startswith(s, Lt) \/ startswith(s, Gt) THEN WellFormedMarkup(SubSeq(s, 5, Len(s)))
  ELSE IF s[1] \in {"&", "<", ">", "LF"} THEN FALSE
  ELSE WellFormedMarkup(Tail(s))

\* what the paragraph markup shows: entities decoded, <br/> as a newline
RECURSIVE Decode(_)
Decode(s) ==
  IF s = <<>> THEN <<>>
  ELSE IF startswith(s, Br) THEN <<"LF">> \o Decode(SubSeq(s, 6, Len(s)))
  ELSE IF startswith(s, Amp) THEN <<"&">> \o Decode(SubSeq(s, 6, Len(s)))
  ELSE IF startswith(s, Lt) THEN <<"<">> \o Decode(SubSeq(s, 5, Len(s)))
  ELSE IF startswith(s, Gt) THEN <<">">> \o Decode(SubSeq(s, 5, Len(s)))
  ELSE <<s[1]>> \o Decode(Tail(s))

\* C5: the markup produced for a body text has every "&", "<", ">" of the
\* input only as an entity and every newline only as <br/>, and decoding it
\* gives the original text back exactly.
C5_EscapeRoundTrip ==
  pc = "escape_out" => WellFormedMarkup(fnOut) /\ Decode(fnOut) = fnIn

C5_Witness ==
  /\ pc = "escape_out"
  /\ fnIn = <<"&", "l", "t", ";", "<", "LF">>
  /\ fnOut = Amp \o <<"l", "t", ";">> \o Lt \o Br

\* C6: page_size "LETTER" selects the Letter dimensions and every other
\* value (null, empty, unrecognized) selects A4.
C6_PageSizeSelection ==
  pc \in {"cover", "toc", "chapters", "build"} =>
     pagesize = IF payload.page_size = <<"L", "E", "T", "T", "E", "R">> THEN letter ELSE A4

InvalidPageSizeToken(ps) ==
  ps # None /\ upper(ps) \notin {<<"A", "4">>, <<"L", "E", "T", "T", "E", "R">>}

Malformed(p) ==
  \/ ~p.has_title
  \/ ~p.has_chapters
  \/ p.chapters = <<>>
  \/ InvalidPageSizeToken(p.page_size)

\* C7: a request with a missing title, an empty chapters list or a page_size
\* token that is neither A4 nor LETTER is rejected before composition: no
\* element stream is built for it and no document is returned.
C7_MalformedRejected ==
  Malformed(payload) => elements = <<>> /\ response = <<>> /\ status # 200

BreakIdx == {k \in 1..Len(elements) : elements[k].kind = "PageBreak"}

TocIdx == {k \in 1..Len(elements) : elements[k].kind = "TableOfContents"}

\* C8: the complete element stream is the cover block ending with a page
\* break, then the TOC heading, a spacer, the single TOC placeholder and a
\* page break, then N chapter blocks (heading, spacer, body, page break) in
\* submission order: N + 2 page breaks, every chapter heading right after a
\* page break, the TOC placeholder before every chapter heading.
C8_StreamShape ==
  StreamComplete =>
     /\ Cardinality(BreakIdx) = N + 2
     /\ Cardinality(TocIdx) = 1
     /\ Cardinality(HeadingIdx) = N
     /\ LET b == FirstOf(elements, {PageBreak})
            t == CHOOSE k \in TocIdx : TRUE
        IN /\ elements[2].style = "CoverBand"
           /\ \A k \in 1..(b - 1) : elements[k].kind \in {"Spacer", "Paragraph"}
                                    /\ ~elements[k].is_toc_heading
           /\ t = b + 3
           /\ elements[b + 1].kind = "Paragraph" /\ elements[b + 1].style = "TOCHeader"
           /\ elements[b + 2].kind = "Spacer"
           /\ elements[t + 1].kind = "PageBreak"
           /\ Len(elements) = t + 1 + 4 * N
           /\ \A j \in 1..N :
                LET h == t + 1 + 4 * (j - 1) + 1
                IN /\ elements[h].is_toc_heading
                   /\ elements[h].bookmark_name = <<"c", "h", "_">> \o ToStr(j)
                   /\ elements[h + 1].kind = "Spacer"
                   /\ elements[h + 2].kind = "Paragraph"
                   /\ elements[h + 2].style = "BodyTextPremium"
                   /\ Decode(elements[h + 2].text) = payload.chapters[j].content
                   /\ elements[h + 3].kind = "PageBreak"
           /\ \A h \in HeadingIdx : elements[h - 1].kind = "PageBreak" /\ t < h

C8_Witness ==
  /\ pc = "build"
  /\ N = 2
  /\ payload.author # None
  /\ Len(elements) = 19

\* flowables the engine has placed so far that are chapter headings
PlacedHeadings == {k \in 1..Len(placed) : elements[k].is_toc_heading}

NthPlacedHeading(j) ==
  CHOOSE h \in PlacedHeadings : Cardinality({k \in PlacedHeadings : k < h}) = j - 1

C10_HeaderFooter ==
  \A k \in 1..Len(decor) :
     LET t == strip(payload.title)
     IN /\ (Len(t) <= 70 => decor[k].header = t)
        /\ (Len(t) > 70 =>
              /\ Len(decor[k].header) = 71
              /\ decor[k].header[71] = "ellipsis"
              /\ SubSeq(decor[k].header, 1, 70) = SubSeq(t, 1, 70))
        /\ decor[k].page = k + 1
        /\ decor[k].footer = <<"P", "a_acute", "g", "i", "n", "a", " ">> \o ToStr(k + 1)

C10_Witness ==
  /\ Len(decor) = 2
  /\ Len(strip(payload.title)) = 71
  /\ Len(payload.title) = 73
  /\ decor[2].header[71] = "ellipsis"

====
